---- MODULE Spec2Model ----
(***************************************************************************)
(* A model of the RomanNumeral value type of roman_numerals.py: the        *)
(* grammar check, the greedy encoder and decoder, the constructor, the     *)
(* arithmetic and comparison operators, by_place_value and random_numeral. *)
(*                                                                         *)
(* A Python str is a sequence of one-character strings.  A Python float is *)
(* a record [twice, negzero]: the float's value is twice/2 (every float    *)
(* the model handles is a multiple of one half, far below 2^53, so float   *)
(* arithmetic on it is exact) and negzero tells -0.0 from 0.0.             *)
(***************************************************************************)
EXTENDS Integers, Sequences, FiniteSets, TLC

VARIABLES pc, call, outcome

vars == <<pc, call, outcome>>

(***************************************************************************)
(* Module constants of roman_numerals.py.                                  *)
(***************************************************************************)
MIN_VALUE == 0

MAX_VALUE == 3999

\* The dict LETTER_VALUES in insertion order.
LETTER_VALUES ==
    << [numeral |-> <<"I">>,      value |-> 1],
       [numeral |-> <<"I", "V">>, value |-> 4],
       [numeral |-> <<"V">>,      value |-> 5],
       [numeral |-> <<"I", "X">>, value |-> 9],
       [numeral |-> <<"X">>,      value |-> 10],
       [numeral |-> <<"X", "L">>, value |-> 40],
       [numeral |-> <<"L">>,      value |-> 50],
       [numeral |-> <<"X", "C">>, value |-> 90],
       [numeral |-> <<"C">>,      value |-> 100],
       [numeral |-> <<"C", "D">>, value |-> 400],
       [numeral |-> <<"D">>,      value |-> 500],
       [numeral |-> <<"C", "M">>, value |-> 900],
       [numeral |-> <<"M">>,      value |-> 1000] >>

\* PLACE_VALUES.values(), in insertion order.
PLACE_VALUES == <<1000, 100, 10, 1>>

\* reversed(LETTER_VALUES.items()): the table from high to low.
reversed_items(items) == [i \in 1..Len(items) |-> items[Len(items) + 1 - i]]

(***************************************************************************)
(* Outcomes of a call: it returns val, raises err, or never returns.       *)
(***************************************************************************)
Returned(v) == [kind |-> "return", err |-> "", val |-> v]

Raised(e) == [kind |-> "raise", err |-> e, val |-> <<>>]

Hung == [kind |-> "hang", err |-> "", val |-> <<>>]

(***************************************************************************)
(* Python values passed to the constructor and the operators.              *)
(***************************************************************************)
StrArg(s) == [type |-> "str", s |-> s]

IntArg(n) == [type |-> "int", n |-> n]

FloatArg(f) == [type |-> "float", f |-> f]

NumeralArg(obj) == [type |-> "numeral", obj |-> obj]

NoneArg == [type |-> "none"]

(***************************************************************************)
(* str methods.                                                            *)
(***************************************************************************)
upper_char(c) ==
    CASE c = "i" -> "I"
      [] c = "v" -> "V"
      [] c = "x" -> "X"
      [] c = "l" -> "L"
      [] c = "c" -> "C"
      [] c = "d" -> "D"
      [] c = "m" -> "M"
      [] c = "e" -> "E"
      [] OTHER -> c

upper(s) == [i \in 1..Len(s) |-> upper_char(s[i])]

startswith(s, prefix) ==
    /\ Len(s) >= Len(prefix)
    /\ SubSeq(s, 1, Len(prefix)) = prefix

removeprefix(s, prefix) ==
    IF startswith(s, prefix) THEN SubSeq(s, Len(prefix) + 1, Len(s)) ELSE s

(***************************************************************************)
(* re.match of valid_roman_numeral_regex.  A position is the index of the  *)
(* next character to read; each piece of the pattern maps the set of       *)
(* positions the match can be at before it to the set it can be at after.  *)
(***************************************************************************)
\* c{lo,hi}
regex_repeat(s, P, c, lo, hi) ==
    { p + k : <<p, k>> \in
        { pk \in P \X (lo..hi) :
            \A j \in 0..(pk[2] - 1) :
                pk[1] + j <= Len(s) /\ s[pk[1] + j] = c } }

\* a literal such as CM
regex_literal(s, P, w) ==
    { p + Len(w) : p \in { q \in P : startswith(SubSeq(s, q, Len(s)), w) } }

\* M{0,3}
regex_thousands(s, P) == regex_repeat(s, P, "M", 0, 3)

\* (CM|CD|D?C{0,3})
regex_hundreds(s, P) ==
    regex_literal(s, P, <<"C", "M">>) \cup regex_literal(s, P, <<"C", "D">>)
        \cup regex_repeat(s, regex_repeat(s, P, "D", 0, 1), "C", 0, 3)

\* (XC|XL|L?X{0,3})
regex_tens(s, P) ==
    regex_literal(s, P, <<"X", "C">>) \cup regex_literal(s, P, <<"X", "L">>)
        \cup regex_repeat(s, regex_repeat(s, P, "L", 0, 1), "X", 0, 3)

\* (IX|IV|V?I{0,3})
regex_ones(s, P) ==
    regex_literal(s, P, <<"I", "X">>) \cup regex_literal(s, P, <<"I", "V">>)
        \cup regex_repeat(s, regex_repeat(s, P, "V", 0, 1), "I", 0, 3)

\* $ without re.MULTILINE: at the end of the string, and also just before a
\* newline that is the string's last character.
regex_dollar(s, p) ==
    \/ p = Len(s) + 1
    \/ p = Len(s) /\ s[p] = "\n"

\* ^ is the start of the string, where re.match anchors anyway.
regex_match(s) ==
    \E p \in regex_ones(s, regex_tens(s, regex_hundreds(s, regex_thousands(s, {1})))) :
        regex_dollar(s, p)

\* check_roman_numeral: TRUE when it returns, FALSE when it raises
\* InvalidRomanError.
check_roman_numeral(numeral) == regex_match(numeral)

(***************************************************************************)
(* _roman_from_int.                                                        *)
(***************************************************************************)
\* for _ in range(count): roman += numeral; number -= value
RECURSIVE roman_append(_, _, _, _)
roman_append(roman, number, item, count) ==
    IF count <= 0
        THEN [roman |-> roman, number |-> number]
        ELSE roman_append(roman \o item.numeral, number - item.value, item, count - 1)

\* One run of the for loop over the table, from entry i on.  range(number //
\* value) is evaluated once, before the entry's letters are appended.
RECURSIVE roman_pass(_, _, _, _)
roman_pass(roman, number, items, i) ==
    IF i > Len(items)
        THEN [roman |-> roman, number |-> number]
        ELSE LET r == roman_append(roman, number, items[i], number \div items[i].value)
             IN  roman_pass(r.roman, r.number, items, i + 1)

\* while number: ...
RECURSIVE roman_loop(_, _)
roman_loop(roman, number) ==
    IF number = 0
        THEN roman
        ELSE LET r == roman_pass(roman, number, reversed_items(LETTER_VALUES), 1)
             IN  roman_loop(r.roman, r.number)

\* A variant of _roman_from_int that writes the nearest numeral it can for a
\* number out of range.
roman_from_int_clamped(number) ==
    IF number > MAX_VALUE THEN Returned(roman_loop(<<>>, MAX_VALUE))
    ELSE IF number < MIN_VALUE THEN Returned(roman_loop(<<>>, MIN_VALUE))
    ELSE Returned(roman_loop(<<>>, number))

roman_from_int(number) ==
    IF number > MAX_VALUE THEN Raised("InvalidRomanError")
    ELSE IF number < MIN_VALUE THEN Raised("InvalidRomanError")
    ELSE Returned(roman_loop(<<>>, number))

(***************************************************************************)
(* _get_value.                                                             *)
(***************************************************************************)
\* A variant of get_value_pass that compares only the first letter of an entry
\* with the first remaining character.
RECURSIVE get_value_pass_first_letter(_, _, _, _)
get_value_pass_first_letter(characters, total, items, i) ==
    IF i > Len(items)
        THEN [characters |-> characters, total |-> total]
        ELSE IF characters # <<>> /\ characters[1] = items[i].numeral[1]
            THEN get_value_pass_first_letter(removeprefix(characters, items[i].numeral),
                                             total + items[i].value, items, i + 1)
            ELSE get_value_pass_first_letter(characters, total, items, i + 1)

\* One run of the for loop over the table, from entry i on: an entry the
\* remaining characters start with is counted and removed, once.
RECURSIVE get_value_pass(_, _, _, _)
get_value_pass(characters, total, items, i) ==
    IF i > Len(items)
        THEN [characters |-> characters, total |-> total]
        ELSE IF startswith(characters, items[i].numeral)
            THEN get_value_pass(removeprefix(characters, items[i].numeral),
                                total + items[i].value, items, i + 1)
            ELSE get_value_pass(characters, total, items, i + 1)

\* while characters: ...  A pass that removes nothing leaves characters and
\* total as they were, so the loop repeats it for ever.
RECURSIVE get_value_loop(_, _)
get_value_loop(characters, total) ==
    IF characters = <<>>
        THEN Returned(total)
        ELSE LET r == get_value_pass(characters, total, reversed_items(LETTER_VALUES), 1)
             IN  IF r.characters = characters
                     THEN Hung
                     ELSE get_value_loop(r.characters, r.total)

get_value(string) ==
    IF ~check_roman_numeral(string)
        THEN Raised("InvalidRomanError")
        ELSE get_value_loop(string, 0)

(***************************************************************************)
(* float: conversions and the two float operations the operators use.      *)
(***************************************************************************)
\* floor(n / d), d # 0
FloorDiv(n, d) == IF d > 0 THEN n \div d ELSE (-n) \div (-d)

float_from_int(n) == [twice |-> 2 * n, negzero |-> FALSE]

float_is_integer(f) == f.twice % 2 = 0

\* int(f): truncation toward zero.
int_from_float(f) ==
    IF f.twice >= 0 THEN f.twice \div 2 ELSE -((-f.twice) \div 2)

float_is_negative(f) == f.twice < 0 \/ (f.twice = 0 /\ f.negzero)

\* vx // wx on floats: the floor of the quotient; a zero quotient takes the sign
\* of vx / wx.
float_floordiv(vx, wx) ==
    IF wx.twice = 0
        THEN Raised("ZeroDivisionError")
        ELSE LET q == FloorDiv(vx.twice, wx.twice)
             IN  Returned([twice   |-> 2 * q,
                           negzero |-> /\ q = 0
                                       /\ vx.twice = 0
                                       /\ float_is_negative(vx) # float_is_negative(wx)])

\* vx % wx on floats: the remainder has the sign of wx, a zero remainder too.
float_mod(vx, wx) ==
    IF wx.twice = 0
        THEN Raised("ZeroDivisionError")
        ELSE LET m == vx.twice - FloorDiv(vx.twice, wx.twice) * wx.twice
             IN  Returned([twice |-> m, negzero |-> m = 0 /\ float_is_negative(wx)])

(***************************************************************************)
(* RomanNumeral.__init__, and __int__ and __float__ as int() and float()   *)
(* apply them to an operand.                                               *)
(***************************************************************************)
\* The three isinstance branches, which set self._string.
init_string(numeral) ==
    CASE numeral.type = "str" ->
            IF check_roman_numeral(upper(numeral.s))
                THEN Returned(upper(numeral.s))
                ELSE Raised("InvalidRomanError")
      [] numeral.type = "int" -> roman_from_int(numeral.n)
      [] numeral.type = "float" ->
            IF float_is_integer(numeral.f)
                THEN roman_from_int(int_from_float(numeral.f))
                ELSE Raised("InvalidRomanError")
      \* no branch is taken: _get_value reads self._string, which was never set
      [] OTHER -> Raised("AttributeError")

RomanNumeral(numeral) ==
    LET s == init_string(numeral)
    IN  IF s.kind # "return"
            THEN s
            ELSE LET v == get_value(s.val)
                 IN  IF v.kind # "return"
                         THEN v
                         ELSE Returned([string |-> s.val, value |-> v.val])

\* int(other)
int_of(other) ==
    CASE other.type = "int" -> Returned(other.n)
      [] other.type = "float" -> Returned(int_from_float(other.f))
      [] other.type = "numeral" -> Returned(other.obj.value)
      [] OTHER -> Raised("TypeError")

\* float(other)
float_of(other) ==
    CASE other.type = "int" -> Returned(float_from_int(other.n))
      [] other.type = "float" -> Returned(other.f)
      [] other.type = "numeral" -> Returned(float_from_int(other.obj.value))
      [] OTHER -> Raised("TypeError")

(***************************************************************************)
(* The operator methods.  self is a RomanNumeral object [string, value];   *)
(* other is the other operand, a Python value.                             *)
(***************************************************************************)
\* self.__class__(n)
new_from_int(n) == RomanNumeral(IntArg(n))

\* self.__class__(int(f)), f the outcome of a float operation.
new_from_float(f) ==
    IF f.kind # "return" THEN f ELSE new_from_int(int_from_float(f.val))

\* A variant of __add__ that subtracts.
add_subtracting(self, other) ==
    LET o == int_of(other)
    IN  IF o.kind # "return" THEN o ELSE new_from_int(self.value - o.val)

add(self, other) ==
    LET o == int_of(other)
    IN  IF o.kind # "return" THEN o ELSE new_from_int(self.value + o.val)

radd(self, other) ==
    LET o == int_of(other)
    IN  IF o.kind # "return" THEN o ELSE new_from_int(o.val + self.value)

sub(self, other) ==
    LET o == int_of(other)
    IN  IF o.kind # "return" THEN o ELSE new_from_int(self.value - o.val)

rsub(self, other) ==
    LET o == int_of(other)
    IN  IF o.kind # "return" THEN o ELSE new_from_int(o.val - self.value)

mul(self, other) ==
    LET o == int_of(other)
    IN  IF o.kind # "return" THEN o ELSE new_from_int(self.value * o.val)

\* A variant of __rmul__ that adds.
rmul_adding(self, other) ==
    LET o == int_of(other)
    IN  IF o.kind # "return" THEN o ELSE new_from_int(o.val + self.value)

rmul(self, other) ==
    LET o == int_of(other)
    IN  IF o.kind # "return" THEN o ELSE new_from_int(o.val * self.value)

floordiv(self, other) ==
    LET o == float_of(other)
    IN  IF o.kind # "return" THEN o
        ELSE new_from_float(float_floordiv(float_from_int(self.value), o.val))

rfloordiv(self, other) ==
    LET o == float_of(other)
    IN  IF o.kind # "return" THEN o
        ELSE new_from_float(float_floordiv(o.val, float_from_int(self.value)))

mod(self, other) ==
    LET o == float_of(other)
    IN  IF o.kind # "return" THEN o
        ELSE new_from_float(float_mod(float_from_int(self.value), o.val))

rmod(self, other) ==
    LET o == float_of(other)
    IN  IF o.kind # "return" THEN o
        ELSE new_from_float(float_mod(o.val, float_from_int(self.value)))

\* A variant of __truediv__ that divides and floors.
truediv_flooring(self, other) == floordiv(self, other)

\* __truediv__ raises at once, whatever the operand.
truediv(self, other) == Raised("TypeError")

\* __rtruediv__: other / self for an other that is no RomanNumeral.
rtruediv(self, other) == Raised("TypeError")

\* The object after __truediv__ or __rtruediv__: neither assigns to self.
self_after_truediv(self, other) == self

\* The tuple (first, second), second evaluated only when first returned.
pair(first, second) ==
    IF first.kind # "return" THEN first
    ELSE IF second.kind # "return" THEN second
    ELSE Returned(<<first.val, second.val>>)

\* self // other, self % other
divmod(self, other) == pair(floordiv(self, other), mod(self, other))

\* other // self, other % self, for an other that is no RomanNumeral
rdivmod(self, other) == pair(rfloordiv(self, other), rmod(self, other))

\* self.value == float(other); other == self goes to the same method, as int
\* and float do not know RomanNumeral.
eq(self, other) ==
    LET o == float_of(other)
    IN  IF o.kind # "return" THEN o
        ELSE Returned(float_from_int(self.value).twice = o.val.twice)

\* RomanNumeral defines no __pow__ and no __rpow__: ** and pow() find no
\* method to call.
unsupported_pow(self, power) == Raised("TypeError")

\* __pow__ of the earlier revision roman.py: float(modulo) of the default None
\* raises; with a modulo given, three-argument pow() refuses floats.
pow_roman_py(self, power, modulo) ==
    LET p == float_of(power)
        m == float_of(modulo)
    IN  IF p.kind # "return" THEN p
        ELSE IF m.kind # "return" THEN m
        ELSE Raised("TypeError")

(***************************************************************************)
(* by_place_value and random_numeral.                                      *)
(***************************************************************************)
\* A variant of the loop of by_place_value that divides the whole value at
\* every place.
RECURSIVE by_place_loop_whole(_, _, _)
by_place_loop_whole(results, remainder, i) ==
    IF i > Len(PLACE_VALUES)
        THEN Returned(results)
        ELSE LET place_value    == PLACE_VALUES[i]
                 floor_quotient == remainder \div place_value
                 value          == floor_quotient * place_value
                 numeral        == RomanNumeral(IntArg(value))
             IN  IF numeral.kind # "return"
                     THEN numeral
                     ELSE by_place_loop_whole(Append(results, numeral.val), remainder, i + 1)

\* The for loop over PLACE_VALUES.values(), from entry i on.
RECURSIVE by_place_loop(_, _, _)
by_place_loop(results, remainder, i) ==
    IF i > Len(PLACE_VALUES)
        THEN Returned(results)
        ELSE LET place_value    == PLACE_VALUES[i]
                 floor_quotient == remainder \div place_value
                 value          == floor_quotient * place_value
                 numeral        == RomanNumeral(IntArg(value))
             IN  IF numeral.kind # "return"
                     THEN numeral
                     ELSE by_place_loop(Append(results, numeral.val),
                                        remainder % place_value, i + 1)

by_place_value(self) == by_place_loop(<<>>, self.value, 1)

\* random.randint(a, b): pick is what the generator draws from a..b.
randint(a, b, pick) == IF a > b THEN Raised("ValueError") ELSE Returned(pick)

\* A variant of random_numeral that does not check max_value.
random_numeral_unchecked_max(min_value, max_value, pick) ==
    IF min_value < 0 THEN Raised("ValueError")
    ELSE LET n == randint(min_value, max_value, pick)
         IN  IF n.kind # "return" THEN n ELSE new_from_int(n.val)

random_numeral(min_value, max_value, pick) ==
    IF min_value < 0 THEN Raised("ValueError")
    ELSE IF max_value > MAX_VALUE THEN Raised("ValueError")
    ELSE LET n == randint(min_value, max_value, pick)
         IN  IF n.kind # "return" THEN n ELSE new_from_int(n.val)

(***************************************************************************)
(* Inputs.                                                                 *)
(***************************************************************************)
\* Strings of up to MaxLen characters are tried exhaustively.
MaxLen == 3

\* Integers are tried from Margin below MIN_VALUE to Margin above MAX_VALUE.
Margin == 2

\* Operands of the operators lie within MaxOperand of 0 and of MAX_VALUE.
MaxOperand == 4

Alphabet == {"I", "V", "X", "L", "C", "D", "M", "i", "m", "\n", " ", "E"}

ShortStrings == UNION { [1..n -> Alphabet] : n \in 0..MaxLen }

\* Every numeral the encoder writes, alone and with one more character.
TailedStrings ==
    { roman_loop(<<>>, v) \o tail :
        v \in MIN_VALUE..MAX_VALUE, tail \in {<<>>} \cup { <<c>> : c \in Alphabet } }

StrInputs == ShortStrings \cup TailedStrings

IntInputs == (MIN_VALUE - Margin)..(MAX_VALUE + Margin)

\* Floats in steps of one half around 0 and around MAX_VALUE, and -0.0.
FloatInputs ==
    { [twice |-> t, negzero |-> FALSE] :
        t \in ((-2 * Margin)..(2 * Margin))
                \cup ((2 * (MAX_VALUE - Margin))..(2 * (MAX_VALUE + Margin))) }
        \cup { [twice |-> 0, negzero |-> TRUE] }

\* The RomanNumeral objects the operators are applied to.
SelfValues ==
    (MIN_VALUE..(MIN_VALUE + MaxOperand)) \cup ((MAX_VALUE - MaxOperand)..MAX_VALUE)
        \cup {10, 58, 1234, 1994}

Selves == { RomanNumeral(IntArg(a)).val : a \in SelfValues }

OperandInts ==
    ((-MaxOperand)..MaxOperand) \cup ((MAX_VALUE - MaxOperand)..(MAX_VALUE + 1))

PlainOperands ==
    { IntArg(n) : n \in OperandInts }
        \cup { FloatArg([twice |-> t, negzero |-> FALSE]) : t \in (-MaxOperand)..MaxOperand }
        \cup { FloatArg([twice |-> 0, negzero |-> TRUE]) }

NumeralOperands ==
    { NumeralArg(RomanNumeral(IntArg(n)).val) :
        n \in OperandInts \cap (MIN_VALUE..MAX_VALUE) }

\* What random.randint(a, b) can draw when random_numeral reaches it; a call
\* that does not reach it, or reaches it with an empty range, draws nothing.
randint_picks(a, b) ==
    IF a >= 0 /\ b <= MAX_VALUE /\ a <= b THEN a..b ELSE {a}

RandomBounds ==
    ((-Margin)..Margin) \cup ((MAX_VALUE - 1)..(MAX_VALUE + Margin))

(***************************************************************************)
(* The caller: at "idle" it makes one call, at "done" it has the call's    *)
(* outcome, which it then drops.                                           *)
(***************************************************************************)
NoCall == [op |-> "none", args |-> <<>>]

Init ==
    /\ pc = "idle"
    /\ call = NoCall
    /\ outcome = Raised("")

Call(op, args, result) ==
    /\ pc' = "done"
    /\ call' = [op |-> op, args |-> args]
    /\ outcome' = result

ConstructFromStr ==
    /\ pc = "idle"
    /\ \E s \in StrInputs : Call("RomanNumeral", <<StrArg(s)>>, RomanNumeral(StrArg(s)))

ConstructFromInt ==
    /\ pc = "idle"
    /\ \E n \in IntInputs : Call("RomanNumeral", <<IntArg(n)>>, RomanNumeral(IntArg(n)))

ConstructFromFloat ==
    /\ pc = "idle"
    /\ \E f \in FloatInputs : Call("RomanNumeral", <<FloatArg(f)>>, RomanNumeral(FloatArg(f)))

ConstructFromOther ==
    /\ pc = "idle"
    /\ Call("RomanNumeral", <<NoneArg>>, RomanNumeral(NoneArg))

\* self + other, and other + self for a plain other
Add ==
    /\ pc = "idle"
    /\ \E self \in Selves :
           \/ \E other \in PlainOperands \cup NumeralOperands :
                 Call("add", <<NumeralArg(self), other>>, add(self, other))
           \/ \E other \in PlainOperands :
                 Call("radd", <<NumeralArg(self), other>>, radd(self, other))

Sub ==
    /\ pc = "idle"
    /\ \E self \in Selves :
           \/ \E other \in PlainOperands \cup NumeralOperands :
                 Call("sub", <<NumeralArg(self), other>>, sub(self, other))
           \/ \E other \in PlainOperands :
                 Call("rsub", <<NumeralArg(self), other>>, rsub(self, other))

Mul ==
    /\ pc = "idle"
    /\ \E self \in Selves :
           \/ \E other \in PlainOperands \cup NumeralOperands :
                 Call("mul", <<NumeralArg(self), other>>, mul(self, other))
           \/ \E other \in PlainOperands :
                 Call("rmul", <<NumeralArg(self), other>>, rmul(self, other))

FloorDivide ==
    /\ pc = "idle"
    /\ \E self \in Selves :
           \/ \E other \in PlainOperands \cup NumeralOperands :
                 Call("floordiv", <<NumeralArg(self), other>>, floordiv(self, other))
           \/ \E other \in PlainOperands :
                 Call("rfloordiv", <<NumeralArg(self), other>>, rfloordiv(self, other))

Modulo ==
    /\ pc = "idle"
    /\ \E self \in Selves :
           \/ \E other \in PlainOperands \cup NumeralOperands :
                 Call("mod", <<NumeralArg(self), other>>, mod(self, other))
           \/ \E other \in PlainOperands :
                 Call("rmod", <<NumeralArg(self), other>>, rmod(self, other))

DivMod ==
    /\ pc = "idle"
    /\ \E self \in Selves :
           \/ \E other \in PlainOperands \cup NumeralOperands :
                 Call("divmod", <<NumeralArg(self), other>>, divmod(self, other))
           \/ \E other \in PlainOperands :
                 Call("rdivmod", <<NumeralArg(self), other>>, rdivmod(self, other))

\* self / other, and other / self for a plain other; the third argument is
\* the object as the call left it.
TrueDivide ==
    /\ pc = "idle"
    /\ \E self \in Selves :
           \/ \E other \in PlainOperands \cup NumeralOperands \cup {NoneArg} :
                 Call("truediv",
                      <<NumeralArg(self), other, NumeralArg(self_after_truediv(self, other))>>,
                      truediv(self, other))
           \/ \E other \in PlainOperands \cup {NoneArg} :
                 Call("rtruediv",
                      <<NumeralArg(self), other, NumeralArg(self_after_truediv(self, other))>>,
                      rtruediv(self, other))

\* self ** power, and pow(self, power) of the earlier revision
Power ==
    /\ pc = "idle"
    /\ \E self \in Selves, power \in PlainOperands :
           \/ Call("pow", <<NumeralArg(self), power>>, unsupported_pow(self, power))
           \/ Call("pow_roman_py", <<NumeralArg(self), power>>,
                   pow_roman_py(self, power, NoneArg))

\* self == other, and other == self for a plain other
Equals ==
    /\ pc = "idle"
    /\ \E self \in Selves :
           \/ \E other \in PlainOperands \cup NumeralOperands :
                 Call("eq", <<NumeralArg(self), other>>, eq(self, other))
           \/ \E other \in PlainOperands :
                 Call("req", <<NumeralArg(self), other>>, eq(self, other))

ByPlaceValue ==
    /\ pc = "idle"
    /\ \E v \in MIN_VALUE..MAX_VALUE :
           LET self == RomanNumeral(IntArg(v)).val
           IN  Call("by_place_value", <<NumeralArg(self)>>, by_place_value(self))

RandomNumeral ==
    /\ pc = "idle"
    /\ \E min_value \in RandomBounds, max_value \in RandomBounds :
           \E pick \in randint_picks(min_value, max_value) :
               Call("random_numeral", <<IntArg(min_value), IntArg(max_value), IntArg(pick)>>,
                    random_numeral(min_value, max_value, pick))

\* The caller drops the outcome and is ready for the next call.  A call that
\* never returns leaves the caller waiting.
Drop ==
    /\ pc = "done"
    /\ outcome.kind # "hang"
    /\ pc' = "idle"
    /\ call' = NoCall
    /\ outcome' = Raised("")

Next ==
    \/ ConstructFromStr
    \/ ConstructFromInt
    \/ ConstructFromFloat
    \/ ConstructFromOther
    \/ Add
    \/ Sub
    \/ Mul
    \/ FloorDivide
    \/ Modulo
    \/ DivMod
    \/ TrueDivide
    \/ Power
    \/ Equals
    \/ ByPlaceValue
    \/ RandomNumeral
    \/ Drop

Spec == Init /\ [][Next]_vars

(***************************************************************************)
(* What the claims speak of.                                               *)
(***************************************************************************)
\* The call at hand is RomanNumeral(x) for an x of the given type.
Constructed(type) ==
    /\ pc = "done"
    /\ call.op = "RomanNumeral"
    /\ call.args[1].type = type

\* The call at hand is one of ops, applied to a RomanNumeral and an operand.
Operated(ops) ==
    /\ pc = "done"
    /\ call.op \in ops

\* The three invariants of a Numeral Value.
ValidNumeral(obj) ==
    /\ obj.value \in MIN_VALUE..MAX_VALUE
    /\ get_value(obj.string) = Returned(obj.value)
    /\ roman_from_int(obj.value) = Returned(obj.string)

\* The Numeral Value of the integer n.
NumeralOf(n) == [string |-> roman_loop(<<>>, n), value |-> n]

InRange(n) == n \in MIN_VALUE..MAX_VALUE

\* The whole of s, and nothing less, has the four-place structure.
FourPlaceStructure(s) ==
    (Len(s) + 1) \in regex_ones(s, regex_tens(s, regex_hundreds(s, regex_thousands(s, {1}))))

\* C1: for every integer v in [0, 3999], decoding the string the encoder
\* writes for v yields v: RomanNumeral(v) returns an object whose value, which
\* _get_value computed from the string _roman_from_int wrote, is v.
C1_RoundTrip ==
    (Constructed("int") /\ InRange(call.args[1].n)) =>
        /\ outcome.kind = "return"
        /\ roman_from_int(call.args[1].n) = Returned(outcome.val.string)
        /\ outcome.val.value = call.args[1].n

C1_Witness ==
    /\ Constructed("int")
    /\ call.args[1].n = 1994
    /\ outcome = Returned([string |-> <<"M", "C", "M", "X", "C", "I", "V">>, value |-> 1994])

\* C2: for every string s that check_roman_numeral accepts, encoding the
\* decoded value of s gives back the uppercase form of s.
C2_CanonicalStability ==
    (Constructed("str") /\ check_roman_numeral(upper(call.args[1].s))) =>
        /\ outcome.kind = "return"
        /\ roman_from_int(outcome.val.value) = Returned(upper(call.args[1].s))

\* C3: construction from a string whose uppercase form does not have, over
\* its entire length, the four-place structure fails with InvalidRomanError.
C3_MalformedRejected ==
    (Constructed("str") /\ ~FourPlaceStructure(upper(call.args[1].s))) =>
        outcome = Raised("InvalidRomanError")

\* The operand of the call at hand, and the integer it stands for when it is
\* a RomanNumeral or a plain int.
Self == call.args[1].obj

Other == call.args[2]

IntegerOperand == Other.type \in {"int", "numeral"}

OtherInt == IF Other.type = "int" THEN Other.n ELSE Other.obj.value

\* n - d * floor(n / d), d # 0: the remainder with the sign of the divisor.
FloorMod(n, d) == n - d * FloorDiv(n, d)

\* The dividend and the divisor of the division at hand.
Dividend == IF call.op \in {"floordiv", "mod", "divmod"} THEN Self.value ELSE OtherInt

Divisor == IF call.op \in {"floordiv", "mod", "divmod"} THEN OtherInt ELSE Self.value

\* The integers the operation at hand is to make Numeral Values of, in the
\* order it makes them.  The divisor of a division is not 0.
Results ==
    CASE call.op \in {"add", "radd"} -> <<Self.value + OtherInt>>
      [] call.op = "sub" -> <<Self.value - OtherInt>>
      [] call.op = "rsub" -> <<OtherInt - Self.value>>
      [] call.op \in {"mul", "rmul"} -> <<Self.value * OtherInt>>
      [] call.op \in {"floordiv", "rfloordiv"} -> <<FloorDiv(Dividend, Divisor)>>
      [] call.op \in {"mod", "rmod"} -> <<FloorMod(Dividend, Divisor)>>
      [] call.op \in {"divmod", "rdivmod"} ->
            <<FloorDiv(Dividend, Divisor), FloorMod(Dividend, Divisor)>>

\* The outcome the operation at hand is to have, given the integers it is to
\* make Numeral Values of: the Numeral Values, or OutOfRange at the first
\* integer out of range.
Expected(results) ==
    IF \E i \in 1..Len(results) : ~InRange(results[i])
        THEN Raised("InvalidRomanError")
        ELSE IF Len(results) = 1
            THEN Returned(NumeralOf(results[1]))
            ELSE Returned([i \in 1..Len(results) |-> NumeralOf(results[i])])

Arithmetic ==
    {"add", "radd", "sub", "rsub", "mul", "rmul",
     "floordiv", "rfloordiv", "mod", "rmod", "divmod", "rdivmod"}

Divisions == {"floordiv", "rfloordiv", "mod", "rmod", "divmod", "rdivmod"}

\* The Numeral Values the call at hand returned.
ReturnedNumerals ==
    IF outcome.kind # "return" THEN {}
    ELSE IF call.op \in {"divmod", "rdivmod"} THEN { outcome.val[i] : i \in 1..Len(outcome.val) }
    ELSE {outcome.val}

\* C4: every Numeral Value a construction or an arithmetic operation returned
\* has an integer in [0, 3999], a string that decodes to that integer and that
\* the encoder writes for it; an integer input or an arithmetic result out of
\* [0, 3999] yields no instance and fails with InvalidRomanError.
C4_ValueInvariant ==
    /\ (pc = "done" /\ call.op \in Arithmetic \cup {"RomanNumeral"}) =>
            \A obj \in ReturnedNumerals : ValidNumeral(obj)
    /\ (Constructed("int") /\ ~InRange(call.args[1].n)) =>
            outcome = Raised("InvalidRomanError")
    /\ (Constructed("float") /\ float_is_integer(call.args[1].f)
            /\ ~InRange(int_from_float(call.args[1].f))) =>
            outcome = Raised("InvalidRomanError")
    /\ (Operated(Arithmetic) /\ IntegerOperand /\ (call.op \in Divisions => Divisor # 0)
            /\ \E i \in 1..Len(Results) : ~InRange(Results[i])) =>
            outcome = Raised("InvalidRomanError")

\* A subtraction returned a Numeral Value: 3999 - 4 is MMMCMXCV.
C4_Witness ==
    /\ Operated({"sub"})
    /\ Self.value = MAX_VALUE
    /\ Other = IntArg(4)
    /\ outcome = Returned([string |-> <<"M", "M", "M", "C", "M", "X", "C", "V">>,
                           value |-> 3995])

\* C5: for all a, b in [0, 3999], RomanNumeral(a) + RomanNumeral(b) equals
\* RomanNumeral(a + b) if a + b <= 3999 and fails with InvalidRomanError if
\* a + b > 3999.
C5_Additivity ==
    (Operated({"add"}) /\ Other.type = "numeral") =>
        IF Self.value + Other.obj.value <= MAX_VALUE
            THEN /\ outcome = RomanNumeral(IntArg(Self.value + Other.obj.value))
                 /\ outcome = Returned(NumeralOf(Self.value + Other.obj.value))
            ELSE outcome = Raised("InvalidRomanError")

C5_Witness ==
    /\ Operated({"add"})
    /\ Self.value = 3995
    /\ Other.type = "numeral"
    /\ Other.obj.value = 4
    /\ outcome = Returned([string |-> <<"M", "M", "M", "C", "M", "X", "C", "I", "X">>,
                           value |-> MAX_VALUE])

\* Two outcomes are the same outcome of an operation: Numeral Values with the
\* same integer, or OutOfRange both.
SameOutcome(x, y) ==
    \/ x.kind = "return" /\ y.kind = "return" /\ x.val.value = y.val.value
    \/ x = Raised("InvalidRomanError") /\ y = Raised("InvalidRomanError")

\* C6: for a Numeral Value A and a plain integer n, A + n and n + A have the
\* same outcome, A * n and n * A have the same outcome, and A == n and n == A
\* have the same truth value, that of the integers being equal.
C6_OperandOrderSymmetry ==
    (pc = "done" /\ call.op \in {"add", "radd", "mul", "rmul", "eq", "req"}
        /\ Other.type = "int") =>
        /\ call.op = "add" => SameOutcome(outcome, radd(Self, Other))
        /\ call.op = "radd" => SameOutcome(outcome, add(Self, Other))
        /\ call.op = "mul" => SameOutcome(outcome, rmul(Self, Other))
        /\ call.op = "rmul" => SameOutcome(outcome, mul(Self, Other))
        /\ call.op \in {"eq", "req"} => outcome = Returned(Self.value = Other.n)

C6_Witness ==
    /\ Operated({"rmul"})
    /\ Self.value = 1234
    /\ Other = IntArg(3)
    /\ outcome.kind = "return"
    /\ outcome.val.value = 3702

\* C7: a // b, a % b and divmod(a, b), in either operand order and for every
\* integer operand, return the Numeral Values of the floored quotient and
\* remainder when these lie in [0, 3999], and fail with nothing but
\* InvalidRomanError.
C7_FloorDivisionAlwaysAvailable ==
    (Operated(Divisions) /\ IntegerOperand) =>
        /\ outcome.kind \in {"return", "raise"}
        /\ outcome.kind = "raise" => outcome.err = "InvalidRomanError"
        /\ Divisor # 0 => outcome = Expected(Results)

\* a ^ n, or some number above MAX_VALUE when a ^ n is above MAX_VALUE.
RECURSIVE PowerOf(_, _)
PowerOf(a, n) ==
    IF n = 0 THEN 1
    ELSE LET r == PowerOf(a, n - 1)
         IN  IF r > MAX_VALUE THEN r ELSE r * a

\* C8: for every non-negative integer exponent n, power(a, n) returns the
\* Numeral Value of a ^ n when a ^ n <= 3999 and fails with InvalidRomanError
\* when a ^ n exceeds 3999.
C8_Power ==
    (Operated({"pow", "pow_roman_py"}) /\ Other.type = "int" /\ Other.n >= 0) =>
        outcome = Expected(<<PowerOf(Self.value, Other.n)>>)

\* v's digit at the place of size place_value.
Digit(v, place_value) == (v \div place_value) % 10

\* C9: by_place_value of the Numeral Value for v returns four valid Numeral
\* Values whose integers sum to v, each the digit of v at its place times the
\* place size; the ones come last and the thousands fourth from last.
C9_PlaceDecomposition ==
    Operated({"by_place_value"}) =>
        /\ outcome.kind = "return"
        /\ Len(outcome.val) = 4
        /\ \A i \in 1..4 :
              /\ ValidNumeral(outcome.val[i])
              /\ outcome.val[i].value % PLACE_VALUES[i] = 0
              /\ outcome.val[i].value = Digit(Self.value, PLACE_VALUES[i]) * PLACE_VALUES[i]
        /\ outcome.val[1].value + outcome.val[2].value
              + outcome.val[3].value + outcome.val[4].value = Self.value
        /\ outcome.val[Len(outcome.val)].value = Digit(Self.value, 1)
        /\ outcome.val[Len(outcome.val) - 3].value = Digit(Self.value, 1000) * 1000

C9_Witness ==
    /\ Operated({"by_place_value"})
    /\ Self.value = 1234
    /\ outcome = Returned(<<NumeralOf(1000), NumeralOf(200), NumeralOf(30), NumeralOf(4)>>)
    /\ outcome.val[2].string = <<"C", "C">>

\* C10: random_numeral(min, max) fails with ValueError whenever min < 0 or
\* max > 3999 or min > max, whatever the generator draws, and otherwise returns
\* a Numeral Value whose integer lies in [min, max].
C10_RandomBounds ==
    Operated({"random_numeral"}) =>
        IF call.args[1].n < 0 \/ call.args[2].n > MAX_VALUE \/ call.args[1].n > call.args[2].n
            THEN outcome = Raised("ValueError")
            ELSE /\ outcome.kind = "return"
                 /\ ValidNumeral(outcome.val)
                 /\ call.args[1].n <= outcome.val.value
                 /\ outcome.val.value <= call.args[2].n

C10_Witness ==
    /\ Operated({"random_numeral"})
    /\ call.args[1].n = 1
    /\ call.args[2].n = MAX_VALUE
    /\ outcome.kind = "return"
    /\ outcome.val.value = 58

\* C11: for every Numeral Value A and every operand x, zero included, A / x
\* and x / A fail with TypeError, return no value and leave A as it was.
C11_TrueDivisionFails ==
    Operated({"truediv", "rtruediv"}) =>
        /\ outcome = Raised("TypeError")
        /\ call.args[3] = call.args[1]
        /\ ValidNumeral(call.args[3].obj)

\* RomanNumeral(10) / 0 failed with TypeError, not with a division by zero.
C11_Witness ==
    /\ Operated({"truediv"})
    /\ Self.value = 10
    /\ Other = IntArg(0)
    /\ outcome = Raised("TypeError")

(***************************************************************************)
(* Construction from a string, one step of the code at a time: __init__    *)
(* up to the call of _get_value, the entry of _get_value, each pass of its *)
(* while loop, and its return.  While the call runs, outcome holds its     *)
(* frame: self._string and the locals characters and total.                *)
(***************************************************************************)
Running(string, characters, total) ==
    [kind |-> "running", err |-> "",
     val |-> [string |-> string, characters |-> characters, total |-> total]]

\* The strings tried one step at a time: the short ones, and every numeral
\* the encoder writes, alone and followed by a newline.
DecodeInputs ==
    ShortStrings \cup
        { roman_loop(<<>>, v) \o tail :
            v \in MIN_VALUE..MAX_VALUE, tail \in {<<>>, <<"\n">>} }

\* __init__, the str branch: upper(), check_roman_numeral, then _get_value is
\* called.
DecodeConstruct ==
    /\ pc = "idle"
    /\ \E s \in DecodeInputs :
           /\ call' = [op |-> "RomanNumeral", args |-> <<StrArg(s)>>]
           /\ IF check_roman_numeral(upper(s))
                  THEN /\ pc' = "get_value"
                       /\ outcome' = Running(upper(s), <<>>, 0)
                  ELSE /\ pc' = "done"
                       /\ outcome' = Raised("InvalidRomanError")

\* _get_value up to its loop: the check again, total = 0, characters =
\* self._string.
DecodeEnter ==
    /\ pc = "get_value"
    /\ IF check_roman_numeral(outcome.val.string)
           THEN /\ pc' = "while"
                /\ outcome' = Running(outcome.val.string, outcome.val.string, 0)
           ELSE /\ pc' = "done"
                /\ outcome' = Raised("InvalidRomanError")
    /\ UNCHANGED call

\* What one pass of the while loop makes of the frame's characters and total.
DecodePassResult ==
    get_value_pass(outcome.val.characters, outcome.val.total,
                   reversed_items(LETTER_VALUES), 1)

\* while characters: one run of the for loop.
DecodePass ==
    /\ pc = "while"
    /\ outcome.val.characters # <<>>
    /\ outcome' = Running(outcome.val.string, DecodePassResult.characters,
                          DecodePassResult.total)
    /\ UNCHANGED <<pc, call>>

\* characters is empty: return total, which __init__ stores as self.value.
DecodeReturn ==
    /\ pc = "while"
    /\ outcome.val.characters = <<>>
    /\ pc' = "done"
    /\ outcome' = Returned([string |-> outcome.val.string, value |-> outcome.val.total])
    /\ UNCHANGED call

NextDecode ==
    \/ DecodeConstruct
    \/ DecodeEnter
    \/ DecodePass
    \/ DecodeReturn
    \/ Drop

\* A call that was made keeps running: the interpreter takes each next step
\* of it.  The caller need not make another call.
SpecDecode ==
    /\ Init
    /\ [][NextDecode]_vars
    /\ WF_vars(DecodeEnter)
    /\ WF_vars(DecodePass)
    /\ WF_vars(DecodeReturn)

\* C12: on every string check_roman_numeral accepts, each pass of the while
\* loop of _get_value removes at least one symbol, so that the loop consumes
\* the whole string: it is never at a non-empty remainder that a pass leaves
\* as it is.
C12_DecoderProgress ==
    (pc = "while" /\ outcome.val.characters # <<>>) =>
        Len(DecodePassResult.characters) < Len(outcome.val.characters)

====
